---- MODULE Spec2Model ----
(***************************************************************************)
(* Model of cmd/tta/tta.go: the Tailscale Test Agent's reverse-dial        *)
(* listener and reconnection supervisor.                                    *)
(*                                                                         *)
(* Goroutines modelled:                                                    *)
(*   - main's supervisor loop (tta.go:196-211);                            *)
(*   - http.Server.Serve on chanListener(conns) (tta.go:184), which calls  *)
(*     chanListener.Accept and then the hs.ConnState hook with StateNew;   *)
(*   - one serving goroutine per accepted connection, which calls the      *)
(*     hs.ConnState hook on every later state change of its connection.    *)
(* The hs.ConnState hook (tta.go:142-158) is modelled in three steps:      *)
(* stMu.Lock(), the body under the lock, the deferred stMu.Unlock().       *)
(***************************************************************************)
EXTENDS Integers, Sequences, FiniteSets, TLC

\* ------------------------------------------------------------------ bounds
\* Total number of dial attempts (successful or failed) explored.
MaxDials == 3

\* Dial error texts explored (err.Error() of a failed net.Dial).
Errs == {"refused", "timeout"}

\* Number of goroutines that call logBuffer.Write, and of Write calls explored.
MaxWriters == 2
MaxWrites == 3

\* Error texts of a failing firewall collaborator explored.
FwErrs == {"exit status 1", "permission denied"}

\* ------------------------------------------------------- program constants
\* make(chan bool, 1)
NeedConnCap == 1
\* make(chan net.Conn, 1)
ConnsCap == 1

\* Connections are named by the index of the dial attempt that created them.
ConnIds == 1..MaxDials
NoConn == 0

\* const maxSize = 1 << 20
MaxSize == 1048576

\* len(p) of the writes explored: one byte, exactly maxSize, one byte more.
Sizes == {1, MaxSize, MaxSize + 1}

\* Holders of logBuffer.mu: the writers and the /logs handler.
Writers == 1..MaxWriters
LogsHandler == MaxWriters + 1
NoHolder == 0

\* http.ConnState values the server can report to the hook.
ConnStates == {"new", "active", "idle", "hijacked", "closed"}

\* The state changes net/http reports for one connection, in order.
NextStates(s) ==
  CASE s = "new"      -> {"active", "closed"}
    [] s = "active"   -> {"idle", "hijacked", "closed"}
    [] s = "idle"     -> {"active", "closed"}
    [] OTHER          -> {}

VARIABLES
  pc,          \* supervisor loop position: inject, recv, dial, sleep, push
  lastErr,     \* var lastErr string
  logged,      \* texts of the "Connect failure" lines logged so far
  cur,         \* c, the connection connect() returned, until it is pushed
  needConnCh,  \* buffered chan bool: the pending values
  conns,       \* buffered chan net.Conn: the pending connections
  connsClosed, \* whether the conns channel has been closed
  stMu,        \* holder of stMu (the connection whose hook call holds it), or NoConn
  newSet,      \* set.Set[net.Conn]: conns in StateNew
  cb,          \* per connection: position of its running hs.ConnState call
  connState,   \* per connection: the state the server last reported for it
  hook,        \* what the hook call holding stMu did in its body
  srvPc,       \* Serve loop position: accept, new, hook, done
  srvConn,     \* the connection Accept last returned to the Serve loop
  acceptErr,   \* the error Accept last returned ("" is nil)
  acceptOnClosed, \* whether the channel was closed when Accept last received
  accepted,    \* connections returned by Accept, in order
  dialed,      \* connections returned by connect(), in order
  nDials,      \* number of connect() calls made
  nRecv,       \* number of values the supervisor received from needConnCh
  closeCall,   \* the last chanListener.Close call: its result ("unset" if none)
               \* and how many connections Accept had returned by then
  lbMu,        \* logBuffer.mu: its holder (a writer, or LogsHandler), or NoHolder
  lbBuf,       \* logBuffer.buf: the chunks stored, in order
  lbWrites,    \* the chunks of every Write that has run its body, in lock order
  lbCalls,     \* number of logBuffer.Write calls made
  lw,          \* per writer: position of its Write call, len(p), and what it returned
  logsPc,      \* position of the /logs handler: idle, lock, body, unlock
  logsBody,    \* the body the /logs handler last wrote
  addFirewall, \* var addFirewall func() error: "nil" or "set"
  fwReq        \* the last /fw request: collaborator invoked, its result, the response

vars == <<pc, lastErr, logged, cur, needConnCh, conns, connsClosed, stMu,
          newSet, cb, connState, hook, srvPc, srvConn, acceptErr, acceptOnClosed,
          accepted, dialed, nDials, nRecv, closeCall,
          lbMu, lbBuf, lbWrites, lbCalls, lw, logsPc, logsBody, addFirewall, fwReq>>

supVars   == <<pc, lastErr, logged, cur, dialed, nDials, nRecv>>
trackVars == <<stMu, newSet, cb, connState, hook>>
srvVars   == <<srvPc, srvConn, acceptErr, acceptOnClosed, accepted>>
logVars   == <<lbMu, lbBuf, lbWrites, lbCalls, lw, logsPc, logsBody>>
fwVars    == <<addFirewall, fwReq>>
handlerVars == <<logVars, fwVars>>

\* A Write call that has not returned; a /fw request not yet served.
NoRet == [n |-> 0, err |-> "unset"]
NoFwReq == [invoked |-> FALSE, result |-> "", status |-> 0, body |-> <<>>]

NoHook == [c |-> NoConn, s |-> "", oldSet |-> {}, tried |-> FALSE, sent |-> FALSE,
           full |-> FALSE]

InitCore ==
  /\ pc = "inject"
  /\ lastErr = ""
  /\ logged = <<>>
  /\ cur = NoConn
  /\ needConnCh = <<>>
  /\ conns = <<>>
  /\ connsClosed = FALSE
  /\ stMu = NoConn
  /\ newSet = {}
  /\ cb = [c \in ConnIds |-> "none"]
  /\ connState = [c \in ConnIds |-> "none"]
  /\ hook = NoHook
  /\ srvPc = "accept"
  /\ srvConn = NoConn
  /\ acceptErr = ""
  /\ acceptOnClosed = FALSE
  /\ accepted = <<>>
  /\ dialed = <<>>
  /\ nDials = 0
  /\ nRecv = 0
  /\ closeCall = [res |-> "unset", at |-> 0]
  /\ lbMu = NoHolder
  /\ lbBuf = <<>>
  /\ lbWrites = <<>>
  /\ lbCalls = 0
  /\ lw = [w \in Writers |-> [pc |-> "idle", n |-> 0, ret |-> NoRet]]
  /\ logsPc = "idle"
  /\ logsBody = <<>>
  /\ fwReq = NoFwReq

\* var addFirewall func() error: nil unless a platform file sets it.
Init == InitCore /\ addFirewall = "nil"

\* The same, on any platform: fw_linux.go may have set addFirewall.
HandlerInit == InitCore /\ addFirewall \in {"nil", "set"}

\* ------------------------------------------------------ supervisor (main)
\* Inject changed to enter the loop without sending the startup signal.
InjectNothing ==
  /\ pc = "inject"
  /\ pc' = "recv"
  /\ UNCHANGED <<lastErr, logged, cur, dialed, nDials, nRecv, needConnCh, conns,
                 connsClosed, trackVars, srvVars, closeCall, handlerVars>>

\* needConnCh <- true   (blocking send before the loop)
Inject ==
  /\ pc = "inject"
  /\ Len(needConnCh) < NeedConnCap
  /\ needConnCh' = Append(needConnCh, TRUE)
  /\ pc' = "recv"
  /\ UNCHANGED <<lastErr, logged, cur, dialed, nDials, nRecv, conns, connsClosed,
                 trackVars, srvVars, closeCall, handlerVars>>

\* <-needConnCh
Recv ==
  /\ pc = "recv"
  /\ Len(needConnCh) > 0
  /\ needConnCh' = Tail(needConnCh)
  /\ nRecv' = nRecv + 1
  /\ pc' = "dial"
  /\ UNCHANGED <<lastErr, logged, cur, dialed, nDials, conns, connsClosed,
                 trackVars, srvVars, closeCall, handlerVars>>

\* Dial changed to log every failure, whatever the remembered text.
DialLogAlways ==
  /\ pc = "dial"
  /\ nDials < MaxDials
  /\ nDials' = nDials + 1
  /\ \/ /\ cur' = nDials + 1
        /\ dialed' = Append(dialed, nDials + 1)
        /\ pc' = "push"
        /\ UNCHANGED <<lastErr, logged>>
     \/ \E s \in Errs :
          /\ logged' = Append(logged, s)
          /\ lastErr' = s
          /\ pc' = "sleep"
          /\ UNCHANGED <<cur, dialed>>
  /\ UNCHANGED <<nRecv, needConnCh, conns, connsClosed, trackVars, srvVars, closeCall,
                 handlerVars>>

\* c, err := connect(); on error: log if the text changed, remember it
Dial ==
  /\ pc = "dial"
  /\ nDials < MaxDials
  /\ nDials' = nDials + 1
  /\ \/ /\ cur' = nDials + 1
        /\ dialed' = Append(dialed, nDials + 1)
        /\ pc' = "push"
        /\ UNCHANGED <<lastErr, logged>>
     \/ \E s \in Errs :
          /\ logged' = IF s # lastErr THEN Append(logged, s) ELSE logged
          /\ lastErr' = s
          /\ pc' = "sleep"
          /\ UNCHANGED <<cur, dialed>>
  /\ UNCHANGED <<nRecv, needConnCh, conns, connsClosed, trackVars, srvVars, closeCall, handlerVars>>

\* Sleep changed to loop straight back to connect() without a receive.
SleepRedial ==
  /\ pc = "sleep"
  /\ pc' = "dial"
  /\ UNCHANGED <<lastErr, logged, cur, dialed, nDials, nRecv, needConnCh, conns,
                 connsClosed, trackVars, srvVars, closeCall, handlerVars>>

\* time.Sleep(time.Second); continue
Sleep ==
  /\ pc = "sleep"
  /\ pc' = "recv"
  /\ UNCHANGED <<lastErr, logged, cur, dialed, nDials, nRecv, needConnCh, conns,
                 connsClosed, trackVars, srvVars, closeCall, handlerVars>>

\* Push changed to a non-blocking send that drops c when the channel is full.
PushDrop ==
  /\ pc = "push"
  /\ conns' = IF Len(conns) < ConnsCap THEN Append(conns, cur) ELSE conns
  /\ cur' = NoConn
  /\ pc' = "recv"
  /\ UNCHANGED <<lastErr, logged, dialed, nDials, nRecv, needConnCh, connsClosed,
                 trackVars, srvVars, closeCall, handlerVars>>

\* Push changed to loop back to connect() without a receive.
PushRedial ==
  /\ pc = "push"
  /\ Len(conns) < ConnsCap
  /\ conns' = Append(conns, cur)
  /\ cur' = NoConn
  /\ pc' = "dial"
  /\ UNCHANGED <<lastErr, logged, dialed, nDials, nRecv, needConnCh, connsClosed,
                 trackVars, srvVars, closeCall, handlerVars>>

\* conns <- c   (blocking send)
Push ==
  /\ pc = "push"
  /\ Len(conns) < ConnsCap
  /\ conns' = Append(conns, cur)
  /\ cur' = NoConn
  /\ pc' = "recv"
  /\ UNCHANGED <<lastErr, logged, dialed, nDials, nRecv, needConnCh, connsClosed,
                 trackVars, srvVars, closeCall, handlerVars>>

\* ------------------------------------------------- hs.ConnState hook steps
\* stMu.Lock()
CbLock(c) ==
  /\ cb[c] = "lock"
  /\ stMu = NoConn
  /\ stMu' = c
  /\ cb' = [cb EXCEPT ![c] = "body"]
  /\ UNCHANGED <<newSet, connState, hook, supVars, needConnCh, conns, connsClosed,
                 srvVars, closeCall, handlerVars>>

\* Mutate changed to a default branch that deletes nothing.
MutateNoDelete(set, c, s) == IF s = "new" THEN set \cup {c} ELSE set

\* newSet after the switch statement
Mutate(set, c, s) == IF s = "new" THEN set \cup {c} ELSE set \ {c}

\* Drained changed to fire whenever the set is empty after the call.
DrainedAnyEmpty(oldLen, newLen) == newLen = 0

\* the condition of the if statement guarding the select
Drained(oldLen, newLen) == oldLen # 0 /\ newLen = 0

\* TrySend changed to a send on an unbuffered channel nobody is receiving from:
\* the select always takes its default branch.
TrySendDrop(ch) == ch

\* TrySend changed to a send that queues behind a pending value.
TrySendQueue(ch) == Append(ch, TRUE)

\* select { case needConnCh <- true: default: }
TrySend(ch) == IF Len(ch) < NeedConnCap THEN Append(ch, TRUE) ELSE ch

\* CbBody changed to a blocking send (needConnCh <- true with no select).
CbBodyBlockingSend(c) ==
  /\ cb[c] = "body"
  /\ stMu = c
  /\ LET s      == connState[c]
         after  == Mutate(newSet, c, s)
         tried  == Drained(Cardinality(newSet), Cardinality(after))
     IN /\ tried => Len(needConnCh) < NeedConnCap
        /\ newSet' = after
        /\ needConnCh' = IF tried THEN Append(needConnCh, TRUE) ELSE needConnCh
        /\ hook' = [c |-> c, s |-> s, oldSet |-> newSet, tried |-> tried,
                    sent |-> tried, full |-> FALSE]
  /\ cb' = [cb EXCEPT ![c] = "unlock"]
  /\ UNCHANGED <<stMu, connState, supVars, conns, connsClosed, srvVars, closeCall,
                 handlerVars>>

\* oldLen := len(newSet); switch s {...}; if oldLen != 0 && len(newSet) == 0 { select ... }
CbBody(c) ==
  /\ cb[c] = "body"
  /\ stMu = c
  /\ LET s      == connState[c]
         after  == Mutate(newSet, c, s)
         tried  == Drained(Cardinality(newSet), Cardinality(after))
         chNext == IF tried THEN TrySend(needConnCh) ELSE needConnCh
     IN /\ newSet' = after
        /\ needConnCh' = chNext
        /\ hook' = [c |-> c, s |-> s, oldSet |-> newSet, tried |-> tried,
                    sent |-> chNext # needConnCh,
                    full |-> Len(needConnCh) >= NeedConnCap]
  /\ cb' = [cb EXCEPT ![c] = "unlock"]
  /\ UNCHANGED <<stMu, connState, supVars, conns, connsClosed, srvVars, closeCall, handlerVars>>

\* defer stMu.Unlock()
CbUnlock(c) ==
  /\ cb[c] = "unlock"
  /\ stMu = c
  /\ stMu' = NoConn
  /\ hook' = NoHook
  /\ cb' = [cb EXCEPT ![c] = "none"]
  /\ UNCHANGED <<newSet, connState, supVars, needConnCh, conns, connsClosed,
                 srvVars, closeCall, handlerVars>>

\* ------------------------------------------------ hs.Serve(chanListener(conns))
\* Accept changed to report "closed" as soon as the channel is closed, buffered
\* connection or not.
AcceptClosedFirst ==
  /\ srvPc = "accept"
  /\ Len(conns) > 0 \/ connsClosed
  /\ acceptOnClosed' = connsClosed
  /\ IF Len(conns) > 0 /\ ~connsClosed
       THEN /\ srvConn' = Head(conns)
            /\ conns' = Tail(conns)
            /\ accepted' = Append(accepted, Head(conns))
            /\ acceptErr' = ""
            /\ srvPc' = "new"
       ELSE /\ srvConn' = NoConn
            /\ acceptErr' = "closed"
            /\ srvPc' = "done"
            /\ UNCHANGED <<conns, accepted>>
  /\ UNCHANGED <<supVars, needConnCh, connsClosed, trackVars, closeCall, handlerVars>>

\* chanListener.Accept: c, ok := <-cl; if !ok { return nil, errors.New("closed") }
Accept ==
  /\ srvPc = "accept"
  /\ Len(conns) > 0 \/ connsClosed
  /\ acceptOnClosed' = connsClosed
  /\ IF Len(conns) > 0
       THEN /\ srvConn' = Head(conns)
            /\ conns' = Tail(conns)
            /\ accepted' = Append(accepted, Head(conns))
            /\ acceptErr' = ""
            /\ srvPc' = "new"
       ELSE /\ srvConn' = NoConn
            /\ acceptErr' = "closed"
            /\ srvPc' = "done"
            /\ UNCHANGED <<conns, accepted>>
  /\ UNCHANGED <<supVars, needConnCh, connsClosed, trackVars, closeCall, handlerVars>>

\* The Serve loop reports the accepted connection as StateNew to the hook.
SrvNew ==
  /\ srvPc = "new"
  /\ cb[srvConn] = "none"
  /\ connState' = [connState EXCEPT ![srvConn] = "new"]
  /\ cb' = [cb EXCEPT ![srvConn] = "lock"]
  /\ srvPc' = "hook"
  /\ UNCHANGED <<stMu, newSet, hook, srvConn, acceptErr, acceptOnClosed, accepted,
                 supVars, needConnCh, conns, connsClosed, closeCall, handlerVars>>

\* The hook returned: the Serve loop starts the connection's goroutine and loops.
SrvSpawn ==
  /\ srvPc = "hook"
  /\ cb[srvConn] = "none"
  /\ srvPc' = "accept"
  /\ UNCHANGED <<srvConn, acceptErr, acceptOnClosed, accepted, supVars, needConnCh,
                 conns, connsClosed, trackVars, closeCall, handlerVars>>

\* Whether connection c's serving goroutine is running.
Serving(c) ==
  /\ \E i \in 1..Len(accepted) : accepted[i] = c
  /\ ~(srvConn = c /\ srvPc \in {"new", "hook"})

\* A serving goroutine reports its connection's next state to the hook.
ConnTransition(c) ==
  /\ Serving(c)
  /\ cb[c] = "none"
  /\ \E s \in NextStates(connState[c]) :
       connState' = [connState EXCEPT ![c] = s]
  /\ cb' = [cb EXCEPT ![c] = "lock"]
  /\ UNCHANGED <<stMu, newSet, hook, supVars, needConnCh, conns, connsClosed,
                 srvVars, closeCall, handlerVars>>

\* ------------------------------------------------ callers outside the program
\* A serving goroutine reports any state for its connection, in any order: the
\* hook with no assumption on the order of the state changes the server reports.
ObserveAny(c) ==
  /\ Serving(c)
  /\ cb[c] = "none"
  /\ \E s \in ConnStates :
       connState' = [connState EXCEPT ![c] = s]
  /\ cb' = [cb EXCEPT ![c] = "lock"]
  /\ UNCHANGED <<stMu, newSet, hook, supVars, needConnCh, conns, connsClosed,
                 srvVars, closeCall, handlerVars>>

\* Any producer sends the next connection on the channel behind a chanListener.
ChanSend ==
  /\ ~connsClosed
  /\ Len(conns) < ConnsCap
  /\ Len(dialed) < MaxDials
  /\ conns' = Append(conns, Len(dialed) + 1)
  /\ dialed' = Append(dialed, Len(dialed) + 1)
  /\ UNCHANGED <<pc, lastErr, logged, cur, nDials, nRecv, needConnCh, connsClosed,
                 trackVars, srvVars, closeCall, handlerVars>>

\* The channel behind a chanListener is closed.
ChanClose ==
  /\ ~connsClosed
  /\ connsClosed' = TRUE
  /\ UNCHANGED <<supVars, needConnCh, conns, trackVars, srvVars, closeCall, handlerVars>>

\* Close changed to close the channel behind the listener.
CloseChannel ==
  /\ closeCall' = [res |-> "nil", at |-> Len(accepted)]
  /\ connsClosed' = TRUE
  /\ UNCHANGED <<supVars, needConnCh, conns, trackVars, srvVars, handlerVars>>

\* chanListener.Close: return nil
Close ==
  /\ closeCall' = [res |-> "nil", at |-> Len(accepted)]
  /\ UNCHANGED <<supVars, needConnCh, conns, connsClosed, trackVars, srvVars,
                 handlerVars>>

\* ----------------------------------------------------------------- logBuffer
\* lb.buf.Len(): the bytes stored
RECURSIVE BufLen(_)
BufLen(buf) == IF buf = <<>> THEN 0 ELSE Head(buf).n + BufLen(Tail(buf))

\* A goroutine calls lb.Write(p) with len(p) = n.
LogWriteCall(w) ==
  /\ lw[w].pc = "idle"
  /\ lbCalls < MaxWrites
  /\ lbCalls' = lbCalls + 1
  /\ \E n \in Sizes : lw' = [lw EXCEPT ![w] = [pc |-> "lock", n |-> n, ret |-> NoRet]]
  /\ UNCHANGED <<lbMu, lbBuf, lbWrites, logsPc, logsBody, fwVars, supVars, needConnCh,
                 conns, connsClosed, trackVars, srvVars, closeCall>>

\* lb.mu.Lock()
LbLock(w) ==
  /\ lw[w].pc = "lock"
  /\ lbMu = NoHolder
  /\ lbMu' = w
  /\ lw' = [lw EXCEPT ![w].pc = "body"]
  /\ UNCHANGED <<lbBuf, lbWrites, lbCalls, logsPc, logsBody, fwVars, supVars,
                 needConnCh, conns, connsClosed, trackVars, srvVars, closeCall>>

\* LbBody changed to store the part of p that fits under maxSize.
LbBodyTruncate(w) ==
  /\ lw[w].pc = "body"
  /\ lbMu = w
  /\ LET p    == [id |-> Len(lbWrites) + 1, n |-> lw[w].n]
         room == MaxSize - BufLen(lbBuf)
         kept == IF p.n <= room THEN p.n ELSE room
     IN /\ lbWrites' = Append(lbWrites, p)
        /\ lbBuf' = IF kept > 0 THEN Append(lbBuf, [id |-> p.id, n |-> kept]) ELSE lbBuf
        /\ lw' = [lw EXCEPT ![w].pc = "unlock", ![w].ret = [n |-> p.n, err |-> "nil"]]
  /\ UNCHANGED <<lbMu, lbCalls, logsPc, logsBody, fwVars, supVars, needConnCh, conns,
                 connsClosed, trackVars, srvVars, closeCall>>

\* LbBody changed to report 0 bytes written for a write it drops.
LbBodyDropReturnsZero(w) ==
  /\ lw[w].pc = "body"
  /\ lbMu = w
  /\ LET p == [id |-> Len(lbWrites) + 1, n |-> lw[w].n]
     IN /\ lbWrites' = Append(lbWrites, p)
        /\ IF BufLen(lbBuf) > MaxSize
             THEN /\ lbBuf' = lbBuf
                  /\ lw' = [lw EXCEPT ![w].pc = "unlock",
                                       ![w].ret = [n |-> 0, err |-> "nil"]]
             ELSE /\ lbBuf' = Append(lbBuf, p)
                  /\ lw' = [lw EXCEPT ![w].pc = "unlock",
                                       ![w].ret = [n |-> p.n, err |-> "nil"]]
  /\ UNCHANGED <<lbMu, lbCalls, logsPc, logsBody, fwVars, supVars, needConnCh, conns,
                 connsClosed, trackVars, srvVars, closeCall>>

\* if lb.buf.Len() > maxSize { return len(p), nil }; return lb.buf.Write(p)
\* (bytes.Buffer.Write appends all of p and returns len(p), nil)
LbBody(w) ==
  /\ lw[w].pc = "body"
  /\ lbMu = w
  /\ LET p == [id |-> Len(lbWrites) + 1, n |-> lw[w].n]
     IN /\ lbWrites' = Append(lbWrites, p)
        /\ IF BufLen(lbBuf) > MaxSize
             THEN /\ lbBuf' = lbBuf
                  /\ lw' = [lw EXCEPT ![w].pc = "unlock",
                                       ![w].ret = [n |-> p.n, err |-> "nil"]]
             ELSE /\ lbBuf' = Append(lbBuf, p)
                  /\ lw' = [lw EXCEPT ![w].pc = "unlock",
                                       ![w].ret = [n |-> p.n, err |-> "nil"]]
  /\ UNCHANGED <<lbMu, lbCalls, logsPc, logsBody, fwVars, supVars, needConnCh, conns,
                 connsClosed, trackVars, srvVars, closeCall>>

\* defer lb.mu.Unlock()
LbUnlock(w) ==
  /\ lw[w].pc = "unlock"
  /\ lbMu = w
  /\ lbMu' = NoHolder
  /\ lw' = [lw EXCEPT ![w].pc = "idle"]
  /\ UNCHANGED <<lbBuf, lbWrites, lbCalls, logsPc, logsBody, fwVars, supVars,
                 needConnCh, conns, connsClosed, trackVars, srvVars, closeCall>>

\* ------------------------------------------------------------- /logs handler
\* A request for /logs arrives.
LogsCall ==
  /\ logsPc = "idle"
  /\ logsPc' = "lock"
  /\ UNCHANGED <<lbMu, lbBuf, lbWrites, lbCalls, lw, logsBody, fwVars, supVars,
                 needConnCh, conns, connsClosed, trackVars, srvVars, closeCall>>

\* logBuf.mu.Lock()
LogsLock ==
  /\ logsPc = "lock"
  /\ lbMu = NoHolder
  /\ lbMu' = LogsHandler
  /\ logsPc' = "body"
  /\ UNCHANGED <<lbBuf, lbWrites, lbCalls, lw, logsBody, fwVars, supVars, needConnCh,
                 conns, connsClosed, trackVars, srvVars, closeCall>>

\* w.Write(logBuf.buf.Bytes())
LogsWrite ==
  /\ logsPc = "body"
  /\ lbMu = LogsHandler
  /\ logsBody' = lbBuf
  /\ logsPc' = "unlock"
  /\ UNCHANGED <<lbMu, lbBuf, lbWrites, lbCalls, lw, fwVars, supVars, needConnCh,
                 conns, connsClosed, trackVars, srvVars, closeCall>>

\* defer logBuf.mu.Unlock()
LogsUnlock ==
  /\ logsPc = "unlock"
  /\ lbMu = LogsHandler
  /\ lbMu' = NoHolder
  /\ logsPc' = "idle"
  /\ UNCHANGED <<lbBuf, lbWrites, lbCalls, lw, logsBody, fwVars, supVars, needConnCh,
                 conns, connsClosed, trackVars, srvVars, closeCall>>

\* --------------------------------------------------------------- /fw handler
\* http.Error(w, msg, code): the message and a newline as the body
HttpError(msg) == <<msg, "\n">>

\* AddFirewallHandler changed to fall through to the OK line after a
\* collaborator error (a missing return).
AddFirewallHandlerNoReturn ==
  /\ IF addFirewall = "nil"
       THEN fwReq' = [invoked |-> FALSE, result |-> "", status |-> 500,
                      body |-> HttpError("firewall not supported")]
       ELSE \E r \in {"nil"} \cup FwErrs :
              fwReq' = [invoked |-> TRUE, result |-> r,
                        status |-> IF r # "nil" THEN 500 ELSE 200,
                        body |-> IF r # "nil" THEN HttpError(r) \o <<"OK\n">>
                                              ELSE <<"OK\n">>]
  /\ UNCHANGED <<addFirewall, logVars, supVars, needConnCh, conns, connsClosed,
                 trackVars, srvVars, closeCall>>

\* addFirewallHandler; the collaborator returns nil ("nil") or an error text
AddFirewallHandler ==
  /\ IF addFirewall = "nil"
       THEN fwReq' = [invoked |-> FALSE, result |-> "", status |-> 500,
                      body |-> HttpError("firewall not supported")]
       ELSE \E r \in {"nil"} \cup FwErrs :
              fwReq' = [invoked |-> TRUE, result |-> r,
                        status |-> IF r # "nil" THEN 500 ELSE 200,
                        body |-> IF r # "nil" THEN HttpError(r) ELSE <<"OK\n">>]
  /\ UNCHANGED <<addFirewall, logVars, supVars, needConnCh, conns, connsClosed,
                 trackVars, srvVars, closeCall>>

\* ------------------------------------------------------------ specifications
Next ==
  \/ Inject
  \/ Recv
  \/ Dial
  \/ Sleep
  \/ Push
  \/ Accept
  \/ SrvNew
  \/ SrvSpawn
  \/ \E c \in ConnIds : ConnTransition(c)
  \/ \E c \in ConnIds : CbLock(c)
  \/ \E c \in ConnIds : CbBody(c)
  \/ \E c \in ConnIds : CbUnlock(c)

\* The whole program.
Spec == Init /\ [][Next]_vars

\* The scheduler runs every goroutine that can take a step; connect() returns
\* (the transport's connect timeout); sync.Mutex hands the lock to a waiter
\* that keeps waiting.  What a connection's peer does is not assumed.
Fairness ==
  /\ WF_vars(Inject)
  /\ WF_vars(Recv)
  /\ WF_vars(Dial)
  /\ WF_vars(Sleep)
  /\ WF_vars(Push)
  /\ WF_vars(Accept)
  /\ WF_vars(SrvNew)
  /\ WF_vars(SrvSpawn)
  /\ \A c \in ConnIds : SF_vars(CbLock(c))
  /\ \A c \in ConnIds : WF_vars(CbBody(c))
  /\ \A c \in ConnIds : WF_vars(CbUnlock(c))

\* The whole program under fair scheduling.
FairSpec == Init /\ [][Next]_vars /\ Fairness

OpenNext ==
  \/ Next
  \/ \E c \in ConnIds : ObserveAny(c)

\* The program with the hook open to any caller.
OpenSpec == Init /\ [][OpenNext]_vars

ListenerNext ==
  \/ ChanSend
  \/ ChanClose
  \/ Close
  \/ Accept
  \/ SrvNew
  \/ SrvSpawn
  \/ \E c \in ConnIds : CbLock(c)
  \/ \E c \in ConnIds : CbBody(c)
  \/ \E c \in ConnIds : CbUnlock(c)

\* The listener and the server loop on a channel fed and closed by any producer.
ListenerSpec == Init /\ [][ListenerNext]_vars

HandlerNext ==
  \/ \E w \in Writers : LogWriteCall(w)
  \/ \E w \in Writers : LbLock(w)
  \/ \E w \in Writers : LbBody(w)
  \/ \E w \in Writers : LbUnlock(w)
  \/ LogsCall
  \/ LogsLock
  \/ LogsWrite
  \/ LogsUnlock
  \/ AddFirewallHandler

\* The log buffer under concurrent writers, and the /logs and /fw handlers.
HandlerSpec == HandlerInit /\ [][HandlerNext]_vars

\* ------------------------------------------------------------------ claims
\* The hook call holding stMu has run its body.
HookDone == hook.c # NoConn

\* C1: after any failed dial attempt the supervisor, after its backoff sleep,
\* eventually makes another dial attempt (reaches connect() again), with no
\* connection-lifecycle event needed: a failure does not consume the need for
\* a connection.  (Stated for failures that leave dial attempts to explore.)
C1_RetryAfterFailure == (pc = "sleep" /\ nDials < MaxDials) ~> (pc = "dial")

\* C2: whenever a hook call drains the Tracked Set (non-empty before, empty
\* after), the call put exactly one signal on a channel that held none, the
\* supervisor receives it from its wait, and the supervisor eventually reaches
\* connect() again.
C2_DrainRedials ==
  /\ [](hook.tried => (hook.sent /\ ~hook.full))
  /\ [][(hook'.tried /\ ~hook.tried) =>
          (pc = "recv" /\ needConnCh = <<>> /\ needConnCh' = <<TRUE>>)]_vars
  /\ ((hook.tried /\ needConnCh = <<TRUE>>) ~> (pc = "dial"))

\* C2 witness: a delivered connection left the new phase and the supervisor is
\* at its second connect().
C2_Witness ==
  /\ pc = "dial"
  /\ nRecv = 2
  /\ accepted = <<1>>
  /\ connState[1] \in {"active", "closed"}

\* C3: the number of dial attempts never exceeds the number of signals the
\* supervisor has received; each attempt is preceded by its own receive (the
\* counts are equal except while a received signal's connect() is pending).
C3_DialsWithinSignals ==
  /\ nDials <= nRecv
  /\ nRecv = nDials + (IF pc = "dial" THEN 1 ELSE 0)

\* C3 witness: three attempts made, at least one failed and one succeeded.
C3_Witness == nDials = 3 /\ Len(dialed) >= 1 /\ Len(logged) >= 1

\* C4: the signal channel never holds more than one pending signal; a hook call
\* that tries to emit while one is pending leaves the channel as it was, and the
\* hook body can always run (it never blocks on the send).
C4_SinglePendingSignal ==
  /\ Len(needConnCh) <= 1
  /\ (HookDone /\ hook.tried /\ hook.full) => ~hook.sent
  /\ \A c \in ConnIds : cb[c] = "body" => ENABLED CbBody(c)

\* C4 witness: a hook call tried to emit while a signal was pending.
C4_Witness == HookDone /\ hook.tried /\ hook.full /\ Len(needConnCh) = 1

\* C5: for the hook call observe(c, s) that has just run its body: s = new added
\* c to the set, any other s removed c, and the call tried to fire the signal
\* exactly when the set was non-empty before and is empty after; observing a
\* non-new state for a connection that is not in the set changes and fires
\* nothing.
C5_ObserveContract ==
  HookDone =>
    /\ hook.s = "new" => newSet = hook.oldSet \cup {hook.c}
    /\ hook.s # "new" => newSet = hook.oldSet \ {hook.c}
    /\ hook.tried <=> (Cardinality(hook.oldSet) # 0 /\ Cardinality(newSet) = 0)
    /\ (hook.s # "new" /\ hook.c \in hook.oldSet) =>
          Cardinality(newSet) = Cardinality(hook.oldSet) - 1
    /\ (hook.s # "new" /\ hook.c \notin hook.oldSet) =>
          (newSet = hook.oldSet /\ ~hook.tried /\ ~hook.sent)

\* C5 witness: a hook call drained the set while another call waits for the lock.
C5_Witness ==
  /\ HookDone
  /\ hook.tried
  /\ \E d \in ConnIds : d # hook.c /\ cb[d] = "lock"

\* C6: the supervisor is never at connect(), nor holding a freshly dialed
\* connection, while a previously dialed connection sits unconsumed on the
\* intake channel; at most one connection is on the intake channel.
C6_NoDialWhileUnconsumed ==
  /\ Len(conns) <= 1
  /\ pc \in {"dial", "push"} => conns = <<>>

\* C6 witness: the supervisor is at connect() after an earlier connection was
\* delivered and accepted.
C6_Witness == pc = "dial" /\ Len(accepted) >= 1 /\ nDials >= 1

\* C7: the connections returned by connect(), in dial order, are exactly those
\* Accept has returned, followed by the one on the intake channel, followed by
\* the one the supervisor is about to push: none lost, duplicated or reordered.
C7_DeliveredOnceInOrder ==
  /\ dialed = accepted \o conns \o (IF pc = "push" THEN <<cur>> ELSE <<>>)
  /\ \A i, j \in 1..Len(dialed) : i < j => dialed[i] < dialed[j]

\* C7 witness: the second dial failed, the third succeeded, and both successful
\* dials' connections were accepted in order.
C7_Witness == accepted = <<1, 3>> /\ Len(logged) >= 1

\* C8: while the supervisor is at the startup send the channel is empty and the
\* send can proceed; once it has sent and before its first receive exactly one
\* signal is pending; its first connect() is reached with no connection ever
\* delivered and no state ever reported; and that first connect() is reached.
C8_StartupSignal ==
  /\ [](pc = "inject" => (needConnCh = <<>> /\ ENABLED Inject))
  /\ []((pc = "recv" /\ nRecv = 0) => needConnCh = <<TRUE>>)
  /\ []((pc = "dial" /\ nDials = 0) =>
         (nRecv = 1 /\ dialed = <<>> /\ \A c \in ConnIds : connState[c] = "none"))
  /\ ((pc = "inject") ~> (pc = "dial" /\ nDials = 0))

\* C8 witness: the supervisor is at its first connect().
C8_Witness == pc = "dial" /\ nDials = 0 /\ nRecv = 1

\* C9: Accept cannot return while the channel is open and empty; it can return
\* whenever a connection is buffered; it returns an error only on a closed
\* channel, with no connection, after every connection sent was returned; on an
\* open channel it never returns an error.
C9_AcceptContract ==
  /\ (srvPc = "accept" /\ conns = <<>> /\ ~connsClosed) => ~ENABLED Accept
  /\ (srvPc = "accept" /\ conns # <<>>) => ENABLED Accept
  /\ acceptErr # "" =>
        /\ acceptErr = "closed"
        /\ connsClosed /\ acceptOnClosed
        /\ srvConn = NoConn
        /\ conns = <<>>
        /\ accepted = dialed
  /\ ~connsClosed => acceptErr = ""
  /\ srvPc = "new" => (acceptErr = "" /\ srvConn = accepted[Len(accepted)])
  /\ dialed = accepted \o conns

\* C9 witness: Accept has just returned a connection, and no error, from a
\* channel that was already closed with that connection still buffered.
C9_Witness ==
  /\ acceptOnClosed
  /\ acceptErr = ""
  /\ srvPc = "new"
  /\ srvConn # NoConn

\* C10: a Close call returns nil and leaves the intake channel, the Tracked Set
\* and the signal channel as they were; after Close, Accept still cannot return
\* on an open empty channel and can still return a buffered connection.
C10_CloseNoOp ==
  /\ [][closeCall' # closeCall =>
          /\ closeCall'.res = "nil"
          /\ conns' = conns
          /\ connsClosed' = connsClosed
          /\ newSet' = newSet
          /\ needConnCh' = needConnCh]_vars
  /\ [](closeCall.res = "nil" =>
          /\ (srvPc = "accept" /\ conns = <<>> /\ ~connsClosed) => ~ENABLED Accept
          /\ (srvPc = "accept" /\ conns # <<>>) => ENABLED Accept)

\* C10 witness: Accept returned a connection after Close had been called.
C10_Witness ==
  /\ closeCall.res = "nil"
  /\ closeCall.at < Len(accepted)
  /\ ~connsClosed

\* C11: the stored length of the log buffer never exceeds 1 MiB (maxSize):
\* bytes that would take it past the cap are dropped.
C11_CappedAtMaxSize == BufLen(lbBuf) <= MaxSize

\* C12: every Write call that has returned reported n = len(p) and a nil error,
\* whether its bytes were stored or dropped.
C12_WriteReportsAll ==
  \A w \in Writers :
    lw[w].ret # NoRet => (lw[w].ret.n = lw[w].n /\ lw[w].ret.err = "nil")

\* C12 witness: the Write call holding the lock has just dropped its bytes
\* (the last write is not in the buffer) and set its return values.
C12_Witness ==
  \E w \in Writers :
    /\ lw[w].pc = "unlock"
    /\ lw[w].ret # NoRet
    /\ Len(lbBuf) < Len(lbWrites)

\* C13: the /fw response is 500 with the line "firewall not supported" when no
\* collaborator is installed, and then the collaborator is not invoked; 500 with
\* the collaborator's error text as its line when the collaborator fails; and
\* 200 with the body OK exactly when the collaborator was invoked and succeeded.
C13_FirewallResponses ==
  fwReq # NoFwReq =>
    /\ addFirewall = "nil" =>
          /\ ~fwReq.invoked
          /\ fwReq.status = 500
          /\ fwReq.body = <<"firewall not supported", "\n">>
    /\ fwReq.invoked => addFirewall = "set"
    /\ (fwReq.invoked /\ fwReq.result # "nil") =>
          (fwReq.status = 500 /\ fwReq.body = <<fwReq.result, "\n">>)
    /\ (fwReq.status = 200) <=> (fwReq.invoked /\ fwReq.result = "nil")
    /\ (fwReq.body = <<"OK\n">>) <=> (fwReq.invoked /\ fwReq.result = "nil")
    /\ \A i \in 1..Len(fwReq.body) :
          fwReq.body[i] = "OK\n" => (fwReq.invoked /\ fwReq.result = "nil")

\* C13 witness: /fw was served on a platform with no firewall collaborator.
C13_Witness == fwReq.status = 500 /\ ~fwReq.invoked /\ addFirewall = "nil"

\* The state the hook last processed for c is known: no call for c is waiting
\* for the lock or about to run its body.
Observed(c) == cb[c] \in {"none", "unlock"}

\* C14: every member of the Tracked Set is an accepted connection, and once
\* the hook has processed the state last reported for it, that state is new:
\* no connection observed as active, idle, hijacked or closed is in the set.
C14_TrackedAreNew ==
  \A c \in ConnIds :
    /\ c \in newSet => \E i \in 1..Len(accepted) : accepted[i] = c
    /\ (c \in newSet /\ Observed(c)) => connState[c] = "new"
    /\ (Observed(c) /\ connState[c] \in ConnStates \ {"new"}) => c \notin newSet

\* C14 witness: one connection is tracked while another, observed as no longer
\* new, is not.
C14_Witness ==
  \E c, d \in ConnIds :
    /\ c \in newSet /\ Observed(c)
    /\ d \notin newSet /\ Observed(d) /\ connState[d] \in {"active", "idle", "closed"}

\* C15: the hook call that holds stMu can always take its next step (its body,
\* then its unlock), whatever the supervisor is doing and whether or not a
\* signal is pending; only it holds the lock; and a free lock can be taken by
\* a waiting call.
C15_HookNeverBlocksHoldingLock ==
  /\ stMu # NoConn =>
        /\ cb[stMu] \in {"body", "unlock"}
        /\ cb[stMu] = "body" => ENABLED CbBody(stMu)
        /\ cb[stMu] = "unlock" => ENABLED CbUnlock(stMu)
  /\ \A c \in ConnIds : cb[c] \in {"body", "unlock"} => stMu = c
  /\ \A c \in ConnIds : (stMu = NoConn /\ cb[c] = "lock") => ENABLED CbLock(c)

\* C15 witness: a hook call ran its body, with a drain and a signal already
\* pending, while the supervisor slept in its backoff.
C15_Witness == HookDone /\ hook.tried /\ hook.full /\ pc = "sleep"

\* C16: a drain while a signal is pending leaves that one signal pending;
\* the supervisor reaches connect() only by receiving a signal, which takes
\* one signal off the channel; and a connect() is never followed by another
\* without a receive in between.
C16_EmissionsCoalesce ==
  /\ [](Len(needConnCh) <= 1)
  /\ [][(hook'.tried /\ hook' # hook /\ needConnCh = <<TRUE>>) =>
          needConnCh' = <<TRUE>>]_vars
  /\ [][(pc' = "dial" /\ pc # "dial") =>
          (nRecv' = nRecv + 1 /\ Len(needConnCh') = Len(needConnCh) - 1)]_vars
  /\ [][nDials' # nDials => (pc = "dial" /\ pc' # "dial")]_vars

\* C16 witness: the set drained again while the signal of an earlier drain (the
\* startup signal having been received) was still pending.
C16_Witness ==
  /\ HookDone /\ hook.tried /\ hook.full /\ ~hook.sent
  /\ nRecv >= 1
  /\ needConnCh = <<TRUE>>

\* The text of the last failure logged ("" if none).
LastLogged(l) == IF l = <<>> THEN "" ELSE l[Len(l)]

\* C17: a failed dial appends its error text to the log exactly when the text
\* differs from the last one logged (initially ""); so no two consecutive log
\* lines carry the same text; and a successful dial leaves the remembered text
\* as it was.
C17_LogOnChange ==
  /\ [](lastErr = LastLogged(logged))
  /\ [](\A i \in 1..Len(logged) - 1 : logged[i] # logged[i + 1])
  /\ [][(nDials' # nDials /\ pc' = "sleep") =>
          /\ lastErr' # LastLogged(logged) => logged' = Append(logged, lastErr')
          /\ lastErr' = LastLogged(logged) => logged' = logged]_vars
  /\ [][(nDials' # nDials /\ pc' = "push") =>
          (lastErr' = lastErr /\ logged' = logged)]_vars

\* C17 witness: two dials in a row failed with the same text and only the first
\* was logged.
C17_Witness ==
  /\ pc = "sleep"
  /\ nDials = 3
  /\ dialed = <<1>>
  /\ Len(logged) = 1

\* The supervisor has received a signal and not yet finished its dial and push,
\* or its backoff.
SupervisorBusy == pc \in {"dial", "push", "sleep"}

\* C18: pending signals + (1 if the supervisor is busy with a received signal)
\* + connections on the intake channel + size of the Tracked Set is at most 1.
C18_SingleToken ==
  Len(needConnCh) + (IF SupervisorBusy THEN 1 ELSE 0) + Len(conns)
    + Cardinality(newSet) <= 1

\* C18 witness: the second connection is the one tracked.
C18_Witness == newSet = {2}

\* C19: whenever the supervisor is at the push of a freshly dialed connection
\* the intake channel is empty and the push can proceed.
C19_PushNeverBlocks == pc = "push" => (conns = <<>> /\ ENABLED Push)

\* C19 witness: the supervisor is at the push of its second connection.
C19_Witness == pc = "push" /\ cur = 2 /\ accepted = <<1>>

\* s is the first Len(s) elements of r.
IsPrefix(s, r) == Len(s) <= Len(r) /\ s = SubSeq(r, 1, Len(s))

\* C20: the buffer's content is the first k writes, whole and in lock order,
\* for some k, and so is every /logs body, which holds no more than the
\* buffer; the content never shrinks; and once a write has been dropped the
\* content stays as it is.
C20_PrefixOfWrites ==
  /\ [](IsPrefix(lbBuf, lbWrites) /\ IsPrefix(logsBody, lbBuf))
  /\ [][IsPrefix(lbBuf, lbBuf')]_vars
  /\ [][Len(lbBuf) < Len(lbWrites) => lbBuf' = lbBuf]_vars

\* C20 witness: of three writes by two writers the third was dropped, and /logs
\* has served the two that were stored.
C20_Witness ==
  /\ Len(lbWrites) = 3
  /\ Len(lbBuf) = 2
  /\ logsBody = lbBuf
  /\ \A w \in Writers : lw[w].ret # NoRet

====
